---- MODULE Spec2Model ----
(***************************************************************************)
(* Model of the catalogue reconciliation run of src/update-catalog.js:     *)
(* updateDataset reads the snapshot file line by line into the Map          *)
(* `products`, upserts the Map's values into the store in batches, then     *)
(* walks the store's identities page by page and deletes those the Map      *)
(* does not hold.  One action per segment of code between two awaits.       *)
(* The generator of src/generate-dataset.js, which fills the store and      *)
(* writes the snapshot file the run reads, is modelled the same way.        *)
(***************************************************************************)
EXTENDS Integers, Sequences, FiniteSets, TLC

\* ------------------------------------------------------------------ bounds
MaxId == 2
MaxVal == 2
MaxLines == 2
MaxBatch == 2
MaxCatalog == 2
MaxPrice == 1
MaxClock == 1

\* Identities are strings, ordered as the store orders them; they are modelled
\* by 0..MaxId in that order.  EmptyId is the empty string "", the least
\* string and the only one JavaScript treats as false.  NoId is null.
EmptyId == 0
NoId == -1
IDs == 0..MaxId
\* The non-identity fields of a record (name, price, createdAt, updatedAt),
\* taken together as one value.
Vals == 1..MaxVal

\* A store call is never logged more than LogCap times; every run that ends
\* issues fewer calls than that.
LogCap == 4 * (MaxId + 1) + 2

\* ------------------------------------------------------------ the snapshot
\* A line of the snapshot file: the header, a blank line, a record line
\* "identity,fields" or a line that does not parse.
Product(id, fields) == [id |-> id, fields |-> fields]
Header == [kind |-> "header", id |-> NoId, fields |-> 0]
Blank == [kind |-> "blank", id |-> NoId, fields |-> 0]
Malformed == [kind |-> "malformed", id |-> NoId, fields |-> 0]
RecordLine(id, fields) == [kind |-> "record", id |-> id, fields |-> fields]
Lines == {Blank, Malformed} \cup {RecordLine(id, f) : id \in IDs, f \in Vals}
Files ==
    {<< >>} \cup
    UNION {{<<h>> \o b : b \in [1..n -> Lines], h \in {Header}} : n \in 0..MaxLines}

\* line.trim() === ""
IsBlank(line) == line.kind = "blank"
\* Product.fromCsv(line): the record of a record line; it throws on a line
\* that does not split into the fields of a record.
Parses(line) == line.kind = "record"
fromCsv(line) == Product(line.id, line.fields)

\* ----------------------------------------------------------------- the Map
\* A Map is the sequence of its entries in insertion order.
MapKeys(m) == {m[k].id : k \in 1..Len(m)}
MapHas(m, id) == id \in MapKeys(m)
MapGet(m, id) == (CHOOSE k \in 1..Len(m) : m[k].id = id)
\* First write wins: a key the Map holds keeps its old value.
MapSetKeepsFirst(m, p) == IF MapHas(m, p.id) THEN m ELSE Append(m, p)

\* products.set(product._id, product): a new key is appended, an existing key
\* keeps its place and takes the new value.
MapSet(m, p) ==
    IF MapHas(m, p.id)
    THEN [k \in 1..Len(m) |-> IF m[k].id = p.id THEN p ELSE m[k]]
    ELSE Append(m, p)

\* --------------------------------------------------------------- the store
\* The collection "Products": a function from the identities it holds to
\* their fields.
Stores == UNION {[S -> Vals] : S \in SUBSET IDs}
Min(S) == CHOOSE x \in S : \A y \in S : x <= y
Max(S) == CHOOSE x \in S : \A y \in S : y <= x
RECURSIVE Sorted(_)
Sorted(S) == IF S = {} THEN << >> ELSE <<Min(S)>> \o Sorted(S \ {Min(S)})
Take(s, n) == SubSeq(s, 1, IF Len(s) < n THEN Len(s) ELSE n)
Range(s) == {s[k] : k \in 1..Len(s)}

\* upsert: true left out: a document the store lacks is not inserted.
UpdateOneNoUpsert(st, p) ==
    [x \in DOMAIN st |-> IF x = p.id THEN p.fields ELSE st[x]]

\* updateOne {filter: {_id}, update: {$set: product}, upsert: true}
UpdateOne(st, p) == [x \in DOMAIN st \cup {p.id} |-> IF x = p.id THEN p.fields ELSE st[x]]
Upserted(st, p) == p.id \notin DOMAIN st
\* matchedCount read in place of modifiedCount.
Matched(st, p) == p.id \in DOMAIN st
Modified(st, p) == p.id \in DOMAIN st /\ st[p.id] # p.fields

\* bulkWrite(batch), ordered: the operations are applied in order; the result
\* counts the documents inserted by an upsert and the documents changed.
RECURSIVE BulkWrite(_, _)
BulkWrite(st, batch) ==
    IF batch = << >>
    THEN [store |-> st, modifiedCount |-> 0, upsertedCount |-> 0]
    ELSE LET p == Head(batch)
             r == BulkWrite(UpdateOne(st, p), Tail(batch))
         IN  [store |-> r.store,
              modifiedCount |-> r.modifiedCount + (IF Modified(st, p) THEN 1 ELSE 0),
              upsertedCount |-> r.upsertedCount + (IF Upserted(st, p) THEN 1 ELSE 0)]

\* .limit(batchSize) left out.
FindNoLimit(st, gt, limit) == Sorted({x \in DOMAIN st : gt = NoId \/ x > gt})

\* find(query, {_id: 1}).sort({_id: 1}).limit(limit).toArray(); gt = NoId is
\* the query {} and any other gt the query {_id: {$gt: gt}}.
Find(st, gt, limit) ==
    Take(Sorted({x \in DOMAIN st : gt = NoId \/ x > gt}), limit)

\* deleteMany({_id: {$in: ids}})
DeleteMany(st, ids) ==
    [store |-> [x \in DOMAIN st \ ids |-> st[x]],
     deletedCount |-> Cardinality(DOMAIN st \cap ids)]

\* ------------------------------------------------------------------- state
VARIABLES
    file,          \* the lines of updated-catalog.csv
    batchSize,     \* const batchSize
    store,         \* the collection "Products"
    pc,            \* where the run stands: the await it is suspended at
    linePos,       \* lines the readline iterator has delivered
    isFirstLine, lineCount, products,
    bulkOps, i, metrics,
    lastId, deletedCount, existingIds, idsToDelete,
    inflight,      \* store calls issued and not yet settled
    printed,       \* logMetrics has printed the summary
    outcome, exitStatus,
    log,           \* the store calls of this run that have settled, in order
    startStore,    \* the store when this run began
    delStartIds,   \* the store's identities when the deletion loop began
    prevOutcome,   \* how the previous run on this store ended
    catalogSize,   \* the generator's --size
    createdAt,     \* the generator's const createdAt
    events,        \* what the generator drew for each index, in order
    generated      \* the metrics the generator's logMetrics printed

vars == <<file, batchSize, store, pc, linePos, isFirstLine, lineCount, products,
          bulkOps, i, metrics, lastId, deletedCount, existingIds, idsToDelete,
          inflight, printed, outcome, exitStatus, log, startStore, delStartIds,
          prevOutcome, catalogSize, createdAt, events, generated>>

generator == <<catalogSize, createdAt, events, generated>>
input == <<file, batchSize, generator>>
ingestVars == <<linePos, isFirstLine, lineCount, products>>
mutateVars == <<bulkOps, i>>
deleteVars == <<lastId, deletedCount, existingIds, idsToDelete>>
exitVars == <<outcome, exitStatus>>
ghostRun == <<startStore, prevOutcome>>

\* Metrics.zero()
Zero == [addedCount |-> 0, updatedCount |-> 0, deletedCount |-> 0]

\* The locals of updateDataset as a run begins (lines 23-36, 73-74).
Fresh ==
    /\ pc = "ingest"
    /\ linePos = 0
    /\ isFirstLine = TRUE
    /\ lineCount = 0
    /\ products = << >>
    /\ bulkOps = << >>
    /\ i = 0
    /\ metrics = Zero
    /\ lastId = NoId
    /\ deletedCount = 0
    /\ existingIds = << >>
    /\ idsToDelete = << >>
    /\ inflight = {}
    /\ printed = FALSE
    /\ outcome = "running"
    /\ exitStatus = NoId
    /\ log = << >>
    /\ delStartIds = {}

Init ==
    /\ file \in Files
    /\ batchSize \in 1..MaxBatch
    /\ store \in Stores
    /\ startStore = store
    /\ prevOutcome = "none"
    /\ Fresh
    /\ catalogSize = 0
    /\ createdAt = NoId
    /\ events = << >>
    /\ generated = NoId

\* -------------------------------------------------------------- store calls
BulkWriteCall(batch) == [op |-> "bulkWrite", batch |-> batch, gt |-> NoId, limit |-> 0, ids |-> {}]
FindCall(gt, limit) == [op |-> "find", batch |-> << >>, gt |-> gt, limit |-> limit, ids |-> {}]
DeleteManyCall(ids) == [op |-> "deleteMany", batch |-> << >>, gt |-> NoId, limit |-> 0, ids |-> ids]
\* A settled call with what it returned: the page of a find,
\* <<modifiedCount, upsertedCount>> of a bulkWrite, <<deletedCount>> of a
\* deleteMany, << >> of a call that threw.
Settled(c, ok, result) == [call |-> c, ok |-> ok, result |-> result]
Logged(l, e) == IF Len(l) < LogCap THEN Append(l, e) ELSE l

\* ------------------------------------------------------- the code's choices
\* the iterator of `for await (const line of rl)` is exhausted
Exhausted(pos, f) == pos = Len(f)
\* bulkOps.slice(idx, idx + batchSize + 1): one operation too many.
SliceLong(ops, from, to) ==
    SubSeq(ops, from + 1, IF to + 1 < Len(ops) THEN to + 1 ELSE Len(ops))
\* bulkOps.slice(idx, idx + batchSize)
Slice(ops, from, to) == SubSeq(ops, from + 1, IF to < Len(ops) THEN to ELSE Len(ops))
\* for (...; i < bulkOps.length; ...)
MoreBatches(ops, idx) == idx < Len(ops)
\* The two counts taken for one another.
TallySwapped(m, result) ==
    [m EXCEPT !.updatedCount = @ + result.upsertedCount,
              !.addedCount = @ + result.modifiedCount]
\* metrics.updatedCount += result.modifiedCount;
\* metrics.addedCount += result.upsertedCount
Tally(m, result) ==
    [m EXCEPT !.updatedCount = @ + result.modifiedCount,
              !.addedCount = @ + result.upsertedCount]
\* lastId ? {_id: {$gt: lastId}} : {}   -- null and "" are both false
Truthy(id) == id # NoId /\ id # EmptyId
Query(cursor) == IF Truthy(cursor) THEN cursor ELSE NoId
\* The filter left out: the whole page is selected.
IdsToDeleteAll(page, m) == page
\* The ! of the filter left out: the identities the Map holds are selected.
IdsToDeletePresent(page, m) == SelectSeq(page, LAMBDA x : MapHas(m, x))
\* existingIds.filter(({_id}) => !products.has(_id)).map(({_id}) => _id)
IdsToDelete(page, m) == SelectSeq(page, LAMBDA x : ~MapHas(m, x))
\* = written for +=.
Overwrite(deleted, result) == result.deletedCount
\* deletedCount += deleteResult.deletedCount
Accumulate(deleted, result) == deleted + result.deletedCount
\* existingIds[existingIds.length - 1]._id
LastOf(page) == page[Len(page)]
\* <= written for <.
FinalPageOrFull(page, limit) == Len(page) <= limit
\* if (existingIds.length < batchSize) break
FinalPage(page, limit) == Len(page) < limit

\* ------------------------------------------------------------------ actions
\* The parse error is caught and the line skipped; the run goes on.
ReadLineSkipsBad ==
    /\ pc = "ingest"
    /\ ~Exhausted(linePos, file)
    /\ linePos' = linePos + 1
    /\ LET line == file[linePos + 1] IN
         IF isFirstLine
         THEN /\ isFirstLine' = FALSE
              /\ UNCHANGED <<lineCount, products, pc>>
         ELSE IF IsBlank(line) \/ ~Parses(line)
         THEN UNCHANGED <<isFirstLine, lineCount, products, pc>>
         ELSE /\ products' = MapSet(products, fromCsv(line))
              /\ lineCount' = lineCount + 1
              /\ UNCHANGED <<isFirstLine, pc>>
    /\ UNCHANGED <<input, store, mutateVars, metrics, deleteVars, inflight, printed,
                   exitVars, log, ghostRun, delStartIds>>

\* lineCount++ placed before the blank-line test: blank lines are counted.
ReadLineCountsBlank ==
    /\ pc = "ingest"
    /\ ~Exhausted(linePos, file)
    /\ linePos' = linePos + 1
    /\ LET line == file[linePos + 1] IN
         IF isFirstLine
         THEN /\ isFirstLine' = FALSE
              /\ UNCHANGED <<lineCount, products, pc>>
         ELSE IF IsBlank(line)
         THEN /\ lineCount' = lineCount + 1
              /\ UNCHANGED <<isFirstLine, products, pc>>
         ELSE IF Parses(line)
         THEN /\ products' = MapSet(products, fromCsv(line))
              /\ lineCount' = lineCount + 1
              /\ UNCHANGED <<isFirstLine, pc>>
         ELSE /\ pc' = "rejected"
              /\ UNCHANGED <<isFirstLine, lineCount, products>>
    /\ UNCHANGED <<input, store, mutateVars, metrics, deleteVars, inflight, printed,
                   exitVars, log, ghostRun, delStartIds>>

\* for await (const line of rl): one line of the file (lines 38-54).
ReadLine ==
    /\ pc = "ingest"
    /\ ~Exhausted(linePos, file)
    /\ linePos' = linePos + 1
    /\ LET line == file[linePos + 1] IN
         IF isFirstLine
         THEN /\ isFirstLine' = FALSE
              /\ UNCHANGED <<lineCount, products, pc>>
         ELSE IF IsBlank(line)
         THEN UNCHANGED <<isFirstLine, lineCount, products, pc>>
         ELSE IF Parses(line)
         THEN /\ products' = MapSet(products, fromCsv(line))
              /\ lineCount' = lineCount + 1
              /\ UNCHANGED <<isFirstLine, pc>>
         ELSE /\ pc' = "rejected"
              /\ UNCHANGED <<isFirstLine, lineCount, products>>
    /\ UNCHANGED <<input, store, mutateVars, metrics, deleteVars, inflight, printed,
                   exitVars, log, ghostRun, delStartIds>>

\* The Map is cleared once bulkOps is built.
EndOfInputClearsMap ==
    /\ pc = "ingest"
    /\ Exhausted(linePos, file)
    /\ bulkOps' = products
    /\ products' = << >>
    /\ i' = 0
    /\ pc' = "upsert"
    /\ UNCHANGED <<input, store, linePos, isFirstLine, lineCount, metrics, deleteVars,
                   inflight, printed, exitVars, log, ghostRun, delStartIds>>

\* The iterator is exhausted: bulkOps is built from the Map (lines 57-65).
EndOfInput ==
    /\ pc = "ingest"
    /\ Exhausted(linePos, file)
    /\ bulkOps' = products
    /\ i' = 0
    /\ pc' = "upsert"
    /\ UNCHANGED <<input, store, ingestVars, metrics, deleteVars, inflight, printed,
                   exitVars, log, ghostRun, delStartIds>>

\* The await before bulkWrite left out: the batch is sent and the loop goes on
\* to the next one without waiting for it.
UpsertNoAwait ==
    /\ pc = "upsert"
    /\ IF MoreBatches(bulkOps, i)
       THEN /\ pc' = "upsert"
            /\ i' = i + batchSize
            /\ inflight' = inflight \cup {BulkWriteCall(Slice(bulkOps, i, i + batchSize))}
            /\ UNCHANGED <<lastId, deletedCount, delStartIds>>
       ELSE /\ pc' = "scan"
            /\ lastId' = NoId
            /\ deletedCount' = 0
            /\ delStartIds' = DOMAIN store
            /\ UNCHANGED <<inflight, i>>
    /\ UNCHANGED <<input, store, ingestVars, bulkOps, metrics, existingIds,
                   idsToDelete, printed, exitVars, log, ghostRun>>

\* The head of the upsert loop (lines 65-67): the next batch is sent, or the
\* loop is left and the deletion loop is set up (lines 73-74).
Upsert ==
    /\ pc = "upsert"
    /\ IF MoreBatches(bulkOps, i)
       THEN /\ pc' = "bulkWrite"
            /\ inflight' = inflight \cup {BulkWriteCall(Slice(bulkOps, i, i + batchSize))}
            /\ UNCHANGED <<lastId, deletedCount, delStartIds>>
       ELSE /\ pc' = "scan"
            /\ lastId' = NoId
            /\ deletedCount' = 0
            /\ delStartIds' = DOMAIN store
            /\ UNCHANGED inflight
    /\ UNCHANGED <<input, store, ingestVars, mutateVars, metrics, existingIds,
                   idsToDelete, printed, exitVars, log, ghostRun>>

\* await bulkWrite(batch) returns (lines 67-69 and the loop's i += batchSize).
BulkWriteReturn ==
    /\ pc = "bulkWrite"
    /\ \E c \in inflight :
         /\ c.op = "bulkWrite"
         /\ LET result == BulkWrite(store, c.batch) IN
              /\ store' = result.store
              /\ metrics' = Tally(metrics, result)
              /\ log' = Logged(log, Settled(c, TRUE,
                                 <<result.modifiedCount, result.upsertedCount>>))
         /\ inflight' = inflight \ {c}
    /\ i' = i + batchSize
    /\ pc' = "upsert"
    /\ UNCHANGED <<input, ingestVars, bulkOps, deleteVars, printed, exitVars,
                   ghostRun, delStartIds>>

\* await bulkWrite(batch) throws: the operations before the failing one stay
\* applied (k = Len: all were applied and the reply was lost).
BulkWriteFail ==
    /\ pc = "bulkWrite"
    /\ \E c \in inflight :
         /\ c.op = "bulkWrite"
         /\ \E k \in 0..Len(c.batch) : store' = BulkWrite(store, Take(c.batch, k)).store
         /\ inflight' = inflight \ {c}
         /\ log' = Logged(log, Settled(c, FALSE, << >>))
    /\ pc' = "rejected"
    /\ UNCHANGED <<input, ingestVars, mutateVars, metrics, deleteVars, printed,
                   exitVars, ghostRun, delStartIds>>

\* The head of the deletion loop (lines 76-83): the next page is asked for.
Scan ==
    /\ pc = "scan"
    /\ inflight' = inflight \cup {FindCall(Query(lastId), batchSize)}
    /\ pc' = "find"
    /\ UNCHANGED <<input, store, ingestVars, mutateVars, metrics, deleteVars, printed,
                   exitVars, log, ghostRun, delStartIds>>

\* Lines 103-105: the loop is left, the summary is printed, the run returns.
Finish(deleted) ==
    /\ metrics' = [metrics EXCEPT !.deletedCount = deleted]
    /\ printed' = TRUE
    /\ pc' = "resolved"

\* Lines 98-100: the cursor moves to the page's last identity; a short page
\* ends the loop, a full one leads back to its head.
NextPage(page, deleted) ==
    /\ lastId' = LastOf(page)
    /\ IF FinalPage(page, batchSize)
       THEN Finish(deleted)
       ELSE /\ pc' = "scan"
            /\ UNCHANGED <<metrics, printed>>

\* await find(...).toArray() returns a page (lines 78-100): an empty page ends
\* the loop; identities the Map lacks are sent to deleteMany.
FindReturn ==
    /\ pc = "find"
    /\ \E c \in inflight :
         /\ c.op = "find"
         /\ LET page == Find(store, c.gt, c.limit)
                del == IdsToDelete(page, products)
            IN  /\ existingIds' = page
                /\ log' = Logged(log, Settled(c, TRUE, page))
                /\ IF page = << >>
                   THEN /\ Finish(deletedCount)
                        /\ inflight' = inflight \ {c}
                        /\ UNCHANGED <<lastId, idsToDelete>>
                   ELSE /\ idsToDelete' = del
                        /\ IF del # << >>
                           THEN /\ pc' = "deleteMany"
                                /\ inflight' = (inflight \ {c}) \cup {DeleteManyCall(Range(del))}
                                /\ UNCHANGED <<lastId, metrics, printed>>
                           ELSE /\ inflight' = inflight \ {c}
                                /\ NextPage(page, deletedCount)
    /\ UNCHANGED <<input, store, ingestVars, mutateVars, deletedCount, exitVars,
                   ghostRun, delStartIds>>

\* The failed scan is caught and the loop tries again.
FindFailRetry ==
    /\ pc = "find"
    /\ \E c \in inflight :
         /\ c.op = "find"
         /\ inflight' = inflight \ {c}
         /\ log' = Logged(log, Settled(c, FALSE, << >>))
    /\ pc' = "scan"
    /\ UNCHANGED <<input, store, ingestVars, mutateVars, metrics, deleteVars, printed,
                   exitVars, ghostRun, delStartIds>>

\* await find(...).toArray() throws.
FindFail ==
    /\ pc = "find"
    /\ \E c \in inflight :
         /\ c.op = "find"
         /\ inflight' = inflight \ {c}
         /\ log' = Logged(log, Settled(c, FALSE, << >>))
    /\ pc' = "rejected"
    /\ UNCHANGED <<input, store, ingestVars, mutateVars, metrics, deleteVars, printed,
                   exitVars, ghostRun, delStartIds>>

\* await deleteMany(...) returns (lines 92-100).
DeleteManyReturn ==
    /\ pc = "deleteMany"
    /\ \E c \in inflight :
         /\ c.op = "deleteMany"
         /\ LET result == DeleteMany(store, c.ids) IN
              /\ store' = result.store
              /\ deletedCount' = Accumulate(deletedCount, result)
              /\ log' = Logged(log, Settled(c, TRUE, <<result.deletedCount>>))
              /\ NextPage(existingIds, Accumulate(deletedCount, result))
         /\ inflight' = inflight \ {c}
    /\ UNCHANGED <<input, ingestVars, mutateVars, existingIds, idsToDelete, exitVars,
                   ghostRun, delStartIds>>

\* await deleteMany(...) throws: some of the identities may be gone already.
DeleteManyFail ==
    /\ pc = "deleteMany"
    /\ \E c \in inflight :
         /\ c.op = "deleteMany"
         /\ \E gone \in SUBSET c.ids : store' = DeleteMany(store, gone).store
         /\ inflight' = inflight \ {c}
         /\ log' = Logged(log, Settled(c, FALSE, << >>))
    /\ pc' = "rejected"
    /\ UNCHANGED <<input, ingestVars, mutateVars, metrics, deleteVars, printed,
                   exitVars, ghostRun, delStartIds>>

\* timing(label, fn) and memory(label, fn) of ./helpers: they await fn and
\* hand on its result or its exception.
Wrapped(settled) == settled

\* main().then(...): "SUCCESS", process.exit(0) (lines 117-120).
MainThen ==
    /\ Wrapped(pc) = "resolved"
    /\ outcome' = "SUCCESS"
    /\ exitStatus' = 0
    /\ pc' = "exited"
    /\ UNCHANGED <<input, store, ingestVars, mutateVars, metrics, deleteVars, inflight,
                   printed, log, ghostRun, delStartIds>>

\* main().catch(...): "FAIL", process.exit(1) (lines 121-125).
MainCatch ==
    /\ Wrapped(pc) = "rejected"
    /\ outcome' = "FAIL"
    /\ exitStatus' = 1
    /\ pc' = "exited"
    /\ UNCHANGED <<input, store, ingestVars, mutateVars, metrics, deleteVars, inflight,
                   printed, log, ghostRun, delStartIds>>

\* The program is started again on the same snapshot file and the store as
\* the previous run left it.
ReRun ==
    /\ pc = "exited"
    /\ prevOutcome' = outcome
    /\ startStore' = store
    /\ pc' = "ingest"
    /\ linePos' = 0
    /\ isFirstLine' = TRUE
    /\ lineCount' = 0
    /\ products' = << >>
    /\ bulkOps' = << >>
    /\ i' = 0
    /\ metrics' = Zero
    /\ lastId' = NoId
    /\ deletedCount' = 0
    /\ existingIds' = << >>
    /\ idsToDelete' = << >>
    /\ inflight' = {}
    /\ printed' = FALSE
    /\ outcome' = "running"
    /\ exitStatus' = NoId
    /\ log' = << >>
    /\ delStartIds' = {}
    /\ UNCHANGED <<input, store>>

Step ==
    \/ ReadLine \/ EndOfInput
    \/ Upsert \/ BulkWriteReturn
    \/ Scan \/ FindReturn \/ DeleteManyReturn
    \/ MainThen \/ MainCatch

Next ==
    \/ ReadLine
    \/ EndOfInput
    \/ Upsert
    \/ BulkWriteReturn
    \/ BulkWriteFail
    \/ Scan
    \/ FindReturn
    \/ FindFail
    \/ DeleteManyReturn
    \/ DeleteManyFail
    \/ MainThen
    \/ MainCatch
    \/ ReRun

Spec == Init /\ [][Next]_vars

\* Store calls return and the event loop runs the continuation that is ready.
LiveSpec == Spec /\ WF_vars(Step)

\* ----------------------------------------------------------- the generator
\* uuidv4(): an identity no earlier call has returned, never the empty string.
Uuids == 1..(2 * MaxCatalog)
\* generatePrice()
Prices == 1..MaxPrice
\* The instants, in ms, the wall clock can show; instant 0 is the instant the
\* generator takes as createdAt.
Clock == 0..MaxClock
\* new Date(): an object with an identity of its own that holds an instant.
Date(ref, ms) == [ref |-> ref, ms |-> ms]
\* The instants compared in place of the objects.
DatesDifferByValue(a, b) == a.ms # b.ms
\* a !== b on two Date objects: true unless both are the same object.
DatesDiffer(a, b) == a.ref # b.ref
\* new Product(_id, name, price, createdAt, updatedAt); the name Product_n is
\* modelled by n.
NewProduct(id, name, price, created, updated) ==
    [id |-> id, name |-> name, price |-> price, createdAt |-> created,
     updatedAt |-> updated]
\* null
Null == [id |-> NoId]
\* The fields of a product as the file and the store hold them: a Date is
\* written as its instant.
FieldsOf(p) ==
    [name |-> p.name, price |-> p.price, createdAt |-> p.createdAt.ms,
     updatedAt |-> p.updatedAt.ms]
\* product.toCsv()
toCsv(p) == RecordLine(p.id, FieldsOf(p))
\* Metrics.added(), Metrics.updated(), Metrics.deleted(), metrics.merge(other)
MetricsAdded == [Zero EXCEPT !.addedCount = 1]
MetricsUpdated == [Zero EXCEPT !.updatedCount = 1]
MetricsDeleted == [Zero EXCEPT !.deletedCount = 1]
Merge(a, b) ==
    [addedCount |-> a.addedCount + b.addedCount,
     updatedCount |-> a.updatedCount + b.updatedCount,
     deletedCount |-> a.deletedCount + b.deletedCount]

\* productEvent
pDelete == 10
pUpdate == 10
pAdd == 20
\* Math.random() * 100: one value below the first threshold of generateUpdate
\* and the three thresholds themselves.
Rands == {9, 10, 20, 40}

\* generateProduct(index, createdAt), given what uuidv4() and generatePrice()
\* return.
generateProduct(uuid, index, price, created) ==
    NewProduct(uuid, index, price, created, created)

\* generateUpdate(product, index, catalogSize), given what Math.random(),
\* uuidv4(), generatePrice() and new Date() return.
generateUpdate(product, index, size, rand, uuid, price, now) ==
    IF rand < pDelete THEN Null
    ELSE IF rand < pDelete + pUpdate
    THEN NewProduct(product.id, index + size, price, product.createdAt, now)
    ELSE IF rand < pDelete + pUpdate + pAdd
    THEN generateProduct(uuid, index + size, price, now)
    ELSE product

\* writeProductUpdateToCsv(writeStream, product, updatedProduct): the lines
\* written and the metrics returned.
writeProductUpdateToCsv(product, updatedProduct) ==
    IF updatedProduct.id # NoId
    THEN IF updatedProduct.id = product.id
         THEN [lines |-> <<toCsv(updatedProduct)>>,
               metrics |-> IF DatesDiffer(updatedProduct.updatedAt, updatedProduct.createdAt)
                           THEN MetricsUpdated ELSE Zero]
         ELSE [lines |-> <<toCsv(product), toCsv(updatedProduct)>>,
               metrics |-> MetricsAdded]
    ELSE [lines |-> << >>, metrics |-> MetricsDeleted]

\* Flushing on batchSize alone: the last, partial batch is never inserted.
FlushOnFullOnly(pending, idx, size) == Len(pending) = batchSize
\* products.length === batchSize || i === catalogSize - 1
Flush(pending, idx, size) == Len(pending) = batchSize \/ idx = size - 1

\* insertMany(docs)
InsertManyCall(docs) ==
    [op |-> "insertMany", batch |-> docs, gt |-> NoId, limit |-> 0, ids |-> {}]
InsertMany(st, docs) ==
    [x \in DOMAIN st \cup {docs[k].id : k \in 1..Len(docs)} |->
       IF \E k \in 1..Len(docs) : docs[k].id = x
       THEN FieldsOf(docs[CHOOSE k \in 1..Len(docs) : docs[k].id = x])
       ELSE st[x]]

\* The identities uuidv4() has returned so far.
UsedIds ==
    (DOMAIN store \cup {products[k].id : k \in 1..Len(products)}
       \cup {file[k].id : k \in 1..Len(file)}) \ {NoId}

\* The generator is started with --size catalogSize on whatever store and
\* file are there (lines 15-29); it awaits dropDatabase.
GenInit ==
    /\ file \in Files
    /\ store \in Stores
    /\ batchSize \in 1..MaxBatch
    /\ catalogSize \in 1..MaxCatalog
    /\ startStore = store
    /\ prevOutcome = "none"
    /\ pc = "dropDatabase"
    /\ linePos = 0
    /\ isFirstLine = TRUE
    /\ lineCount = 0
    /\ products = << >>
    /\ bulkOps = << >>
    /\ i = 0
    /\ metrics = Zero
    /\ lastId = NoId
    /\ deletedCount = 0
    /\ existingIds = << >>
    /\ idsToDelete = << >>
    /\ inflight = {}
    /\ printed = FALSE
    /\ outcome = "running"
    /\ exitStatus = NoId
    /\ log = << >>
    /\ delStartIds = {}
    /\ createdAt = NoId
    /\ events = << >>
    /\ generated = NoId

\* clearExistingData (lines 38-43): the database is dropped and the file
\* removed.
ClearExistingData ==
    /\ pc = "dropDatabase"
    /\ store' = << >>
    /\ file' = << >>
    /\ pc' = "generateDataset"
    /\ UNCHANGED <<batchSize, ingestVars, mutateVars, metrics, deleteVars, inflight,
                   printed, exitVars, log, ghostRun, delStartIds, generator>>

\* dropDatabase throws.
DropDatabaseFail ==
    /\ pc = "dropDatabase"
    /\ pc' = "genRejected"
    /\ UNCHANGED <<file, batchSize, store, ingestVars, mutateVars, metrics, deleteVars,
                   inflight, printed, exitVars, log, ghostRun, delStartIds, generator>>

\* generateDataset up to its loop (lines 46-52): the header is written,
\* metrics = Metrics.zero(), createdAt = new Date(), products = [].
GenerateDataset ==
    /\ pc = "generateDataset"
    /\ file' = file \o <<Header>>
    /\ metrics' = Zero
    /\ createdAt' = Date(0, 0)
    /\ products' = << >>
    /\ i' = 0
    /\ pc' = "generate"
    /\ UNCHANGED <<batchSize, store, linePos, isFirstLine, lineCount, bulkOps, deleteVars,
                   inflight, printed, exitVars, log, ghostRun, delStartIds,
                   catalogSize, events, generated>>

\* One turn of the loop (lines 54-71): a product is generated and pushed, its
\* update is drawn and written to the file, and the products are sent to the
\* store when the batch is full or the product is the last.
Generate ==
    /\ pc = "generate"
    /\ i < catalogSize
    /\ \E uuid \in Uuids \ UsedIds, price \in Prices, rand \in Rands,
          price2 \in Prices, ms \in Clock :
         \E uuid2 \in Uuids \ (UsedIds \cup {uuid}) :
           LET product == generateProduct(uuid, i, price, createdAt)
               updatedProduct ==
                   generateUpdate(product, i, catalogSize, rand, uuid2, price2,
                                  Date(i + 1, ms))
               written == writeProductUpdateToCsv(product, updatedProduct)
               pending == Append(products, product)
           IN  /\ file' = file \o written.lines
               /\ metrics' = Merge(metrics, written.metrics)
               /\ products' = pending
               /\ events' = Append(events, [rand |-> rand, product |-> product,
                                            updatedProduct |-> updatedProduct,
                                            at |-> Len(file)])
               /\ IF Flush(pending, i, catalogSize)
                  THEN /\ inflight' = {InsertManyCall(pending)}
                       /\ pc' = "insertMany"
                       /\ i' = i
                  ELSE /\ inflight' = inflight
                       /\ pc' = "generate"
                       /\ i' = i + 1
    /\ UNCHANGED <<batchSize, store, linePos, isFirstLine, lineCount, bulkOps, deleteVars,
                   printed, exitVars, log, ghostRun, delStartIds, catalogSize,
                   createdAt, generated>>

\* insertMany returns (lines 64-65): the products are in the store,
\* products.length = 0, and the loop goes on.
InsertManyReturn ==
    /\ pc = "insertMany"
    /\ \E c \in inflight :
         /\ store' = InsertMany(store, c.batch)
         /\ log' = Logged(log, Settled(c, TRUE, <<Len(c.batch)>>))
    /\ inflight' = {}
    /\ products' = << >>
    /\ i' = i + 1
    /\ pc' = "generate"
    /\ UNCHANGED <<input, linePos, isFirstLine, lineCount, bulkOps, metrics, deleteVars,
                   printed, exitVars, ghostRun, delStartIds>>

\* insertMany throws after it has inserted some of the products.
InsertManyFail ==
    /\ pc = "insertMany"
    /\ \E c \in inflight :
         /\ \E n \in 0..(Len(c.batch) - 1) :
              store' = InsertMany(store, SubSeq(c.batch, 1, n))
         /\ log' = Logged(log, Settled(c, FALSE, << >>))
    /\ inflight' = {}
    /\ pc' = "genRejected"
    /\ UNCHANGED <<input, ingestVars, mutateVars, metrics, deleteVars, printed,
                   exitVars, ghostRun, delStartIds>>

\* The loop has ended (lines 74-75): writeStream.end(), logMetrics.
GenerateEnd ==
    /\ pc = "generate"
    /\ ~(i < catalogSize)
    /\ generated' = metrics
    /\ printed' = TRUE
    /\ pc' = "genResolved"
    /\ UNCHANGED <<file, batchSize, store, ingestVars, mutateVars, metrics, deleteVars,
                   inflight, exitVars, log, ghostRun, delStartIds, catalogSize,
                   createdAt, events>>

\* main().then(...) of the generator (lines 164-168).
GenMainThen ==
    /\ Wrapped(pc) = "genResolved"
    /\ outcome' = "SUCCESS"
    /\ exitStatus' = 0
    /\ pc' = "genExited"
    /\ UNCHANGED <<input, store, ingestVars, mutateVars, metrics, deleteVars, inflight,
                   printed, log, ghostRun, delStartIds>>

\* main().catch(...) of the generator (lines 169-173).
GenMainCatch ==
    /\ Wrapped(pc) = "genRejected"
    /\ outcome' = "FAIL"
    /\ exitStatus' = 1
    /\ pc' = "genExited"
    /\ UNCHANGED <<input, store, ingestVars, mutateVars, metrics, deleteVars, inflight,
                   printed, log, ghostRun, delStartIds>>

\* update-catalog.js is run on the file and the store a generator that
\* exited with status 0 has left.
RunUpdate ==
    /\ pc = "genExited"
    /\ exitStatus = 0
    /\ batchSize' \in 1..MaxBatch
    /\ prevOutcome' = "none"
    /\ startStore' = store
    /\ pc' = "ingest"
    /\ linePos' = 0
    /\ isFirstLine' = TRUE
    /\ lineCount' = 0
    /\ products' = << >>
    /\ bulkOps' = << >>
    /\ i' = 0
    /\ metrics' = Zero
    /\ lastId' = NoId
    /\ deletedCount' = 0
    /\ existingIds' = << >>
    /\ idsToDelete' = << >>
    /\ inflight' = {}
    /\ printed' = FALSE
    /\ outcome' = "running"
    /\ exitStatus' = NoId
    /\ log' = << >>
    /\ delStartIds' = {}
    /\ UNCHANGED <<file, store, generator>>

GenNext ==
    \/ ClearExistingData
    \/ DropDatabaseFail
    \/ GenerateDataset
    \/ Generate
    \/ InsertManyReturn
    \/ InsertManyFail
    \/ GenerateEnd
    \/ GenMainThen
    \/ GenMainCatch
    \/ RunUpdate
    \/ Next

\* The generator, and then the reconciliation on what it has generated.
GenSpec == GenInit /\ [][GenNext]_vars

\* --------------------------------------------------------------- properties
\* The Snapshot Index as a function from identity to fields.
IndexFn(m) == [id \in MapKeys(m) |-> m[MapGet(m, id)].fields]
\* The record lines of a file: every line after the first that is not blank.
RecordPositions(f) == {k \in 2..Len(f) : Parses(f[k])}
LastPos(f, id) == Max({k \in RecordPositions(f) : f[k].id = id})
\* Ingestion has run to the end of the file.
Ingested == pc # "ingest" /\ \A k \in 2..Len(file) : file[k].kind # "malformed"
Succeeded == outcome = "SUCCESS"
\* The operations on identity id in the bulkWrite calls that have settled.
UpsertsFor(id) ==
    Cardinality({kj \in (1..Len(log)) \X (1..batchSize) :
                   /\ log[kj[1]].call.op = "bulkWrite"
                   /\ kj[2] <= Len(log[kj[1]].call.batch)
                   /\ log[kj[1]].call.batch[kj[2]].id = id})
\* The k-th number returned by the settled calls op, added up.
RECURSIVE SumOf(_, _, _)
SumOf(l, op, k) ==
    IF l = << >> THEN 0
    ELSE (IF Head(l).call.op = op /\ Head(l).ok THEN Head(l).result[k] ELSE 0)
         + SumOf(Tail(l), op, k)
Added == MapKeys(products) \ DOMAIN startStore
Changed == {id \in MapKeys(products) \cap DOMAIN startStore :
              startStore[id] # IndexFn(products)[id]}
Gone == DOMAIN startStore \ MapKeys(products)

\* C1: when a run completes without error, the store's record set equals the
\* Snapshot Index: the same identities, and for each the index's fields.
StoreEqualsIndex ==
    Succeeded =>
        /\ DOMAIN store = MapKeys(products)
        /\ \A id \in DOMAIN store : store[id] = IndexFn(products)[id]
\* A completed run that added, changed and deleted records.
StoreEqualsIndexWitness ==
    /\ Succeeded
    /\ Added # {} /\ Changed # {} /\ Gone # {}

\* C2: after a successful run no identity of the initial store that the
\* snapshot lacks remains, and deletedCount is the number of those identities.
DeletionComplete ==
    Succeeded =>
        /\ Gone \cap DOMAIN store = {}
        /\ metrics.deletedCount = Cardinality(Gone)
\* Two identities deleted, in two delete calls, while one record stays.
DeletionCompleteWitness ==
    /\ Succeeded
    /\ Cardinality(Gone) = 2
    /\ metrics.deletedCount = 2
    /\ store # << >>
    /\ Cardinality({k \in 1..Len(log) : log[k].call.op = "deleteMany"}) = 2

\* C3: after ingestion the Snapshot Index holds exactly one entry for every
\* identity of the file's record lines, the record of the last line with that
\* identity; one upsert is issued for it and a completed run leaves the store
\* holding that last record's fields.
LastWriteWins ==
    /\ Ingested =>
        /\ MapKeys(products) = {file[k].id : k \in RecordPositions(file)}
        /\ \A id \in MapKeys(products) :
             /\ Cardinality({k \in 1..Len(products) : products[k].id = id}) = 1
             /\ products[MapGet(products, id)] = fromCsv(file[LastPos(file, id)])
    /\ \A id \in IDs : UpsertsFor(id) <= 1
    /\ Succeeded =>
        \A id \in MapKeys(products) :
            /\ UpsertsFor(id) = 1
            /\ store[id] = file[LastPos(file, id)].fields
\* An identity with two record lines of different fields, after a completed run.
LastWriteWinsWitness ==
    /\ Succeeded
    /\ \E id \in MapKeys(products) :
         \E k \in RecordPositions(file) :
            /\ file[k].id = id
            /\ k < LastPos(file, id)
            /\ file[k].fields # file[LastPos(file, id)].fields
            /\ store[id] = file[LastPos(file, id)].fields

\* C4: after a successful run addedCount is the number of index identities
\* the initial store lacked and updatedCount the number it held with other
\* fields; both are the sums of the counts the upsert batches returned.
AddUpdateCounting ==
    Succeeded =>
        /\ metrics.addedCount = Cardinality(Added)
        /\ metrics.updatedCount = Cardinality(Changed)
        /\ metrics.updatedCount = SumOf(log, "bulkWrite", 1)
        /\ metrics.addedCount = SumOf(log, "bulkWrite", 2)
\* One record added and one changed, in two batches.
AddUpdateCountingWitness ==
    /\ Succeeded
    /\ Cardinality(Added) = 1
    /\ Cardinality(Changed) = 1
    /\ Cardinality({k \in 1..Len(log) : log[k].call.op = "bulkWrite"}) = 2

\* C5: a run that follows a successful run on the same snapshot leaves the
\* store as it found it and reports no add, no update and no delete.
Idempotence ==
    (Succeeded /\ prevOutcome = "SUCCESS") =>
        /\ store = startStore
        /\ metrics = Zero
\* A second successful run over a store that holds records.
IdempotenceWitness ==
    /\ Succeeded
    /\ prevOutcome = "SUCCESS"
    /\ Len(bulkOps) = 2
    /\ store # << >>

\* C6: a complete run that follows a run aborted by a store-call failure ends
\* with the store equal to the Snapshot Index.
RecoveryByReRun ==
    (Succeeded /\ prevOutcome = "FAIL") => store = IndexFn(products)
\* The aborted run left a store that is neither empty nor the index, and the
\* run after it completed.
RecoveryByReRunWitness ==
    /\ Succeeded
    /\ prevOutcome = "FAIL"
    /\ startStore # << >>
    /\ startStore # store
    /\ Added # {} /\ Gone # {}

\* The settled calls of kind op, by their place in the log.
CallsOf(op) == {k \in 1..Len(log) : log[k].call.op = op}
\* The calls of kind op issued so far: settled or in flight.
Issued(op) == Cardinality(CallsOf(op)) + Cardinality({c \in inflight : c.op = op})
\* The identities of the page the k-th settled call returned.
PageOf(k) == Range(log[k].result)
Ceil(n, k) == (n + k - 1) \div k
ExpectedScans(n, k) == IF n % k = 0 THEN n \div k + 1 ELSE Ceil(n, k)
DeletionEnded == pc = "resolved" \/ Succeeded

\* C7: with N identities in the store when the deletion loop starts and
\* k = batchSize, the loop issues ceil(N/k) scans (N/k + 1 when k divides N):
\* never more, and exactly that many once it has ended; the pages scanned are
\* pairwise disjoint and their union is the N identities.
BatchBoundary ==
    LET scans == CallsOf("find") IN
    /\ Issued("find") <= ExpectedScans(Cardinality(delStartIds), batchSize)
    /\ \A a \in scans : \A b \in scans : a < b => PageOf(a) \cap PageOf(b) = {}
    /\ DeletionEnded =>
         /\ Issued("find") = ExpectedScans(Cardinality(delStartIds), batchSize)
         /\ UNION {PageOf(k) : k \in scans} = delStartIds
\* What holds of C7 on the code: the statement for every run whose deletion
\* loop ends, and for every run in which no scan is asked past the identity ""
\* with batchSize 1.
BatchBoundaryOfEndedRuns ==
    LET scans == CallsOf("find") IN
    /\ (batchSize > 1 \/ EmptyId \notin delStartIds \cap MapKeys(products)) => BatchBoundary
    /\ DeletionEnded => BatchBoundary

\* C8: the deletion loop ends in every run in which the store calls return.
Termination == []<>(pc = "exited")
\* C8, the empty store: one scan, no delete call, deletedCount 0.
EmptyStoreEdge ==
    (delStartIds = {} /\ pc \in {"find", "deleteMany", "resolved"}) =>
        /\ Issued("find") = 1
        /\ Issued("deleteMany") = 0
        /\ deletedCount = 0
        /\ pc = "resolved" => metrics.deletedCount = 0
\* The loop that does not end: a full page that ends with the identity "" is
\* followed by a scan from the beginning, which returns that page again.
RescanFromStart ==
    \A k \in CallsOf("find") :
        (k > 1 /\ log[k].ok /\ log[k].call.gt = NoId) => log[k].result # log[1].result

\* C9: no upsert call is issued before the whole snapshot is ingested, no scan
\* or delete call before the last upsert batch has completed, and at most one
\* store call is in flight at any time.
StageOrdering ==
    /\ Cardinality(inflight) <= 1
    /\ Issued("bulkWrite") > 0 =>
         /\ pc # "ingest"
         /\ linePos = Len(file)
         /\ bulkOps = products
    /\ Issued("find") + Issued("deleteMany") > 0 =>
         /\ {c \in inflight : c.op = "bulkWrite"} = {}
         /\ \A k \in CallsOf("bulkWrite") : log[k].ok
         /\ \A id \in MapKeys(products) : UpsertsFor(id) = 1
    /\ \A a \in CallsOf("bulkWrite") :
         \A b \in CallsOf("find") \cup CallsOf("deleteMany") : a < b
\* A scan in flight after two upsert batches and a delete call have settled.
StageOrderingWitness ==
    /\ Cardinality(CallsOf("bulkWrite")) = 2
    /\ CallsOf("deleteMany") # {}
    /\ \E c \in inflight : c.op = "find"

\* C10: when a store call fails the run issues no further store call, does
\* not retry, does not print the summary and ends FAIL with exit status 1; a
\* run ends SUCCESS with exit status 0 only if every stage completed.
AbortOnFailure ==
    /\ \A k \in 1..Len(log) :
         ~log[k].ok => /\ k = Len(log)
                       /\ inflight = {}
                       /\ pc \in {"rejected", "exited"}
                       /\ ~printed
                       /\ outcome # "SUCCESS"
    /\ pc = "rejected" => inflight = {} /\ ~printed /\ outcome = "running"
    /\ pc = "exited" <=> outcome \in {"SUCCESS", "FAIL"}
    /\ outcome = "FAIL" => exitStatus = 1 /\ ~printed
    /\ outcome = "SUCCESS" =>
         /\ exitStatus = 0
         /\ printed
         /\ linePos = Len(file)
         /\ ~MoreBatches(bulkOps, i)
         /\ Len(existingIds) < batchSize
         /\ \A k \in 1..Len(log) : log[k].ok
\* A run that failed at a delete call after upserts and a scan, and has exited.
AbortOnFailureWitness ==
    /\ outcome = "FAIL"
    /\ exitStatus = 1
    /\ Len(log) >= 3
    /\ log[Len(log)].call.op = "deleteMany"
    /\ ~log[Len(log)].ok

\* The lines of the file that the parser is given and cannot parse.
MalformedPositions(f) == {k \in 2..Len(f) : ~IsBlank(f[k]) /\ ~Parses(f[k])}

\* C11: if parsing a snapshot line fails, wherever it stands in the file, the
\* run aborts during ingestion: no upsert, scan or delete call is ever issued
\* and the store stays what it was before the run.
MalformedLeavesStore ==
    MalformedPositions(file) # {} =>
        /\ store = startStore
        /\ log = << >>
        /\ inflight = {}
        /\ pc \in {"ingest", "rejected", "exited"}
        /\ linePos <= Min(MalformedPositions(file))
        /\ pc = "exited" => outcome = "FAIL"
\* A run that failed on a malformed last line, after a record line before it
\* was taken into the Map, over a store that holds records.
MalformedLeavesStoreWitness ==
    /\ outcome = "FAIL"
    /\ Len(file) = 3
    /\ MalformedPositions(file) = {3}
    /\ linePos = 3
    /\ products # << >>
    /\ store # << >>
    /\ MapKeys(products) \cap DOMAIN store = {}

\* C12: a non-empty snapshot reconciled against an empty store ends with
\* deletedCount = 0, no deleteMany call, updatedCount = 0 and addedCount = the
\* number of distinct identities of the snapshot.
EmptyStoreBootstrap ==
    (startStore = << >> /\ RecordPositions(file) # {}) =>
        /\ Issued("deleteMany") = 0
        /\ Succeeded =>
             /\ metrics.deletedCount = 0
             /\ metrics.updatedCount = 0
             /\ metrics.addedCount = Cardinality({file[k].id : k \in RecordPositions(file)})
\* Two identities added to an empty store.
EmptyStoreBootstrapWitness ==
    /\ Succeeded
    /\ startStore = << >>
    /\ prevOutcome = "none"
    /\ metrics.addedCount = 2
    /\ Cardinality(DOMAIN store) = 2

\* C13: the row count is the number of record lines consumed, duplicates
\* counted, the header and blank lines not; it is at least the size of the
\* Snapshot Index, and equal to it exactly when no identity repeats.
RowCount ==
    LET consumed == {k \in RecordPositions(file) : k <= linePos}
        repeats == \E a \in consumed : \E b \in consumed : a < b /\ file[a].id = file[b].id
    IN  /\ lineCount = Cardinality(consumed)
        /\ lineCount >= Len(products)
        /\ (lineCount = Len(products)) <=> ~repeats
        /\ printed => lineCount = Cardinality(RecordPositions(file))
\* The summary printed for a file with a blank line and a record line.
RowCountWitness ==
    /\ printed
    /\ lineCount = 1
    /\ \E k \in 2..Len(file) : IsBlank(file[k])
\* The summary printed for a file in which an identity repeats.
RowCountRepeatWitness ==
    /\ printed
    /\ lineCount = 2
    /\ Len(products) = 1

\* Every store call of the run so far: settled or in flight.
AllCalls == {log[k].call : k \in 1..Len(log)} \cup inflight
UpsertStageEnded == pc \in {"scan", "find", "deleteMany", "resolved"} \/ Succeeded
DeletionStage == pc \in {"scan", "find", "deleteMany"}

\* C14: every identity passed to deleteMany is absent from the Snapshot Index
\* and was returned by the page just scanned; a delete call is issued for a
\* page only when the page has such an identity; no identity of the index is
\* deleted.
DeletionSafety ==
    /\ \A c \in inflight :
         c.op = "deleteMany" =>
            /\ c.ids # {}
            /\ c.ids = {x \in Range(existingIds) : x \notin MapKeys(products)}
            /\ log[Len(log)].call.op = "find"
            /\ PageOf(Len(log)) = Range(existingIds)
    /\ \A k \in CallsOf("deleteMany") :
         /\ log[k].call.ids # {}
         /\ log[k].call.ids \cap MapKeys(products) = {}
         /\ k > 1 /\ log[k - 1].call.op = "find"
         /\ log[k].call.ids \subseteq PageOf(k - 1)
    /\ (DeletionStage \/ DeletionEnded) => MapKeys(products) \subseteq DOMAIN store
\* A delete call in flight for one identity of a page that also holds an
\* identity of the index.
DeletionSafetyWitness ==
    \E c \in inflight :
        /\ c.op = "deleteMany"
        /\ Cardinality(c.ids) = 1
        /\ Len(existingIds) = 2
        /\ Range(existingIds) \cap MapKeys(products) # {}

\* The scans settled before the k-th call of the log.
ScansBefore(k) == {j \in CallsOf("find") : j < k}
\* The cursor a scan must carry after the scans `earlier`: none for the first
\* scan, the greatest identity of the page before it for every other.
CursorAfter(earlier, gt) ==
    IF earlier = {}
    THEN gt = NoId
    ELSE LET prev == Max(earlier) IN
         /\ gt # NoId
         /\ gt = Max(PageOf(prev))
         /\ log[prev].call.gt # NoId => gt > log[prev].call.gt

\* C15: only the first scan is unbounded; every later scan asks for the
\* identities greater than lastId, the greatest identity of the page before
\* it, so the cursor grows from page to page and no identity is returned by
\* two scans.  This holds for every identity, the empty string included.
CursorDiscipline ==
    /\ \A k \in CallsOf("find") : CursorAfter(ScansBefore(k), log[k].call.gt)
    /\ \A c \in inflight : c.op = "find" => CursorAfter(CallsOf("find"), c.gt)
    /\ \A a \in CallsOf("find") : \A b \in CallsOf("find") :
         a < b => PageOf(a) \cap PageOf(b) = {}
\* What holds of C15 on the code: the statement for every run in which no
\* full page ends with the identity "", which takes batchSize 1 and "" in the
\* store when the deletion loop begins.
CursorDisciplineOfOtherIds ==
    (batchSize > 1 \/ EmptyId \notin delStartIds) => CursorDiscipline
\* Three scans with a growing cursor.
CursorDisciplineOfOtherIdsWitness ==
    /\ EmptyId \notin delStartIds
    /\ Cardinality(CallsOf("find")) = 3
    /\ log[Len(log)].call.gt = 2

\* C16: the upsert stage issues ceil(|Index| / batchSize) bulkWrite calls (none
\* for an empty index), every call but the last carries batchSize operations,
\* and every identity of the index is the target of exactly one operation.
UpsertPartitioning ==
    LET n == Ceil(Len(products), batchSize) IN
    /\ Issued("bulkWrite") <= n
    /\ \A c \in AllCalls :
         c.op = "bulkWrite" => Len(c.batch) >= 1 /\ Len(c.batch) <= batchSize
    /\ \A k \in CallsOf("bulkWrite") : k < n => Len(log[k].call.batch) = batchSize
    /\ UpsertStageEnded =>
         /\ Cardinality(CallsOf("bulkWrite")) = n
         /\ \A id \in IDs : UpsertsFor(id) = (IF MapHas(products, id) THEN 1 ELSE 0)
\* Two batches of one operation each have been sent for an index of two.
UpsertPartitioningWitness ==
    /\ UpsertStageEnded
    /\ Len(products) = 2
    /\ Cardinality(CallsOf("bulkWrite")) = 2
\* One batch that is not full: an index of one with batchSize 2.
UpsertPartialBatchWitness ==
    /\ UpsertStageEnded
    /\ batchSize = 2
    /\ Len(products) = 1
    /\ Cardinality(CallsOf("bulkWrite")) = 1

\* C17: every upsert batch, every scanned page and every deleteMany identity
\* list holds at most batchSize items, however many identities the store holds.
PayloadBound ==
    /\ \A c \in AllCalls :
         /\ Len(c.batch) <= batchSize
         /\ Cardinality(c.ids) <= batchSize
         /\ c.op = "find" => c.limit = batchSize
    /\ \A k \in CallsOf("find") : Len(log[k].result) <= batchSize
    /\ Len(existingIds) <= batchSize
    /\ Len(idsToDelete) <= batchSize
\* A full page and a delete call over a store that holds more than batchSize
\* identities.
PayloadBoundWitness ==
    /\ Cardinality(DOMAIN store) > batchSize
    /\ Len(existingIds) = batchSize
    /\ \E c \in inflight : c.op = "deleteMany" /\ Cardinality(c.ids) = batchSize

\* C18: the Snapshot Index is not modified once ingestion has ended; the
\* upsert stage removes no identity from the store; the deletion stage inserts
\* no identity and changes no field of a record that stays.
FrameOfStages ==
    [][/\ (~(pc = "ingest" /\ linePos' # linePos) /\ ~(pc = "exited" /\ pc' = "ingest"))
            => products' = products
       /\ pc \in {"upsert", "bulkWrite"} => DOMAIN store \subseteq DOMAIN store'
       /\ DeletionStage =>
            /\ DOMAIN store' \subseteq DOMAIN store
            /\ \A id \in DOMAIN store' : store'[id] = store[id]]_vars
\* A deletion loop that has ended after records were added and deleted.
FrameOfStagesWitness ==
    /\ DeletionEnded
    /\ products # << >>
    /\ metrics.addedCount > 0
    /\ metrics.deletedCount > 0
    /\ store # << >>

\* The event the generator drew for a product: delete, update, add or
\* unchanged.
EventOf(e) ==
    IF e.rand < pDelete THEN "delete"
    ELSE IF e.rand < pDelete + pUpdate THEN "update"
    ELSE IF e.rand < pDelete + pUpdate + pAdd THEN "add"
    ELSE "unchanged"
\* The lines of the file written for the k-th product.
LinesOf(k) ==
    SubSeq(file, events[k].at + 1,
           IF k < Len(events) THEN events[k + 1].at ELSE Len(file))
CountOf(kind) == Cardinality({k \in 1..Len(events) : EventOf(events[k]) = kind})
Counted ==
    [addedCount |-> CountOf("add"), updatedCount |-> CountOf("update"),
     deletedCount |-> CountOf("delete")]
GeneratedIds == {events[k].product.id : k \in 1..Len(events)}
GeneratorRuns == pc \in {"generate", "insertMany", "genResolved", "genRejected", "genExited"}
GeneratorSucceeded == pc = "genExited" /\ exitStatus = 0
FirstRunSucceeded == pc = "exited" /\ Succeeded /\ prevOutcome = "none"

\* C19: for each product the generator puts in the store one event is counted
\* and the lines written are: delete - no line, deleted + 1; update - one line
\* with the same identity and changed fields, updated + 1; add - the product's
\* line followed by a line with a fresh identity, added + 1; unchanged - the
\* product's line, no counter changed.  A reconciliation run on the generated
\* store and file reports the counts the generator reported.
GeneratorEncoding ==
    /\ \A k \in 1..Len(events) :
         LET p == events[k].product
             kind == EventOf(events[k])
             lines == LinesOf(k)
         IN  /\ kind = "delete" => lines = << >>
             /\ kind = "update" =>
                  /\ Len(lines) = 1
                  /\ lines[1].kind = "record"
                  /\ lines[1].id = p.id
                  /\ lines[1].fields # FieldsOf(p)
             /\ kind = "add" =>
                  /\ Len(lines) = 2
                  /\ lines[1] = RecordLine(p.id, FieldsOf(p))
                  /\ lines[2].kind = "record"
                  /\ lines[2].id \notin GeneratedIds
                  /\ \A j \in 1..Len(file) :
                       j # events[k].at + 2 => file[j].id # lines[2].id
             /\ kind = "unchanged" => lines = <<RecordLine(p.id, FieldsOf(p))>>
    /\ GeneratorRuns => metrics = Counted
    /\ GeneratorSucceeded =>
         /\ generated = Counted
         /\ Len(events) = catalogSize
         /\ Cardinality(GeneratedIds) = catalogSize
         /\ DOMAIN store = GeneratedIds
         /\ \A k \in 1..Len(events) :
              store[events[k].product.id] = FieldsOf(events[k].product)
    /\ FirstRunSucceeded => metrics = generated
\* The reconciliation has succeeded on a store and file generated with one
\* add event and one update event.
GeneratorEncodingWitness ==
    /\ FirstRunSucceeded
    /\ CountOf("add") = 1
    /\ CountOf("update") = 1
    /\ metrics = [addedCount |-> 1, updatedCount |-> 1, deletedCount |-> 0]
\* The same with one delete event and one unchanged event.
GeneratorDeleteWitness ==
    /\ FirstRunSucceeded
    /\ CountOf("delete") = 1
    /\ CountOf("unchanged") = 1
    /\ metrics = [addedCount |-> 0, updatedCount |-> 0, deletedCount |-> 1]
====
